---- MODULE Spec2Model ----
(***************************************************************************)
(* Model of the MCP-to-skill converter (src/mcp_to_skill.py) and of the    *)
(* executor it generates (src/skills/trello/executor.py).                   *)
(*                                                                         *)
(* JSON documents are modelled structurally: a value is a tagged pair,     *)
(*   <<"str", s>>, <<"list", <<v1, ..>>>>, <<"dict", <<<<k1, v1>>, ..>>>>   *)
(* a dict keeping Python's insertion order.  A file on disk holds the      *)
(* token sequence json.dump writes, and json.load parses it back.          *)
(* An optional Python value (None or x) is the sequence <<>> or <<x>>.     *)
(***************************************************************************)
EXTENDS Integers, Sequences, FiniteSets, TLC

VARIABLES
    data,           \* json.load of the --mcp-config file
    server_name,    \* --server (optional string)
    gpc,            \* generator position
    servers,        \* result of parse_mcp_config
    gi,             \* index of the server convert_mcp_to_skill is generating
    tools,          \* catalog handed to _generate_skill_md
    files,          \* output directory: skill dir -> [skill_md, config_json]
    md_out,         \* document produced by a direct _generate_skill_md call
    epc,            \* executor position
    skill_dir,      \* directory the executor runs in
    args,           \* argparse result of the executor
    HAS_MCP,        \* module-level capability flag of the executor
    config,         \* config the executor loaded
    variant,        \* transport variant mcp_connection selected
    selections,     \* number of times the variant was selected
    channel,        \* transport channel: "none", "open", "closed"
    client,         \* ClientSession context: "none", "entered", "exited"
    session_hist,   \* session states passed through, oldest first
    sent,           \* requests sent, per kind
    ops,            \* operations (list/describe/call) started
    op,             \* the operation dispatched
    catalog,        \* catalog of the remote, as it answered
    reply,          \* how the remote answered the tool call
    result,         \* value returned by list_tools / describe_tool / call_tool
    exit_code,      \* process exit status, -1 while running
    stdout,
    stderr

gvars == <<data, server_name, gpc, servers, gi, tools, files, md_out>>
evars == <<epc, skill_dir, args, HAS_MCP, config, variant, selections, channel,
           client, session_hist, sent, ops, op, catalog, reply, result,
           exit_code, stdout, stderr>>
vars == <<data, server_name, gpc, servers, gi, tools, files, md_out,
          epc, skill_dir, args, HAS_MCP, config, variant, selections, channel,
          client, session_hist, sent, ops, op, catalog, reply, result,
          exit_code, stdout, stderr>>

(***************************************************************************)
(* Bounds                                                                  *)
(***************************************************************************)
MaxServers == 2
MaxToolCount == 13
MaxCatalog == 2

(***************************************************************************)
(* Python values                                                           *)
(***************************************************************************)
None == <<>>
Some(x) == <<x>>
Str(s) == <<"str", s>>
List(xs) == <<"list", xs>>
Dict(ps) == <<"dict", ps>>

\* truth value of an optional string: None and "" are falsy
Truthy(o) == o # None /\ o[1] # ""

\* k in d
In(d, k) == \E i \in 1..Len(d[2]) : d[2][i][1] = k

\* d[k]
Get(d, k) == d[2][CHOOSE i \in 1..Len(d[2]) : d[2][i][1] = k][2]

\* d.get(k, dflt)
GetOr(d, k, dflt) == IF In(d, k) THEN Get(d, k) ELSE dflt

\* d[k] = v: an existing key keeps its place, a new key goes last
SetItem(d, k, v) ==
    IF In(d, k)
    THEN Dict([i \in 1..Len(d[2]) |->
                 IF d[2][i][1] = k THEN <<k, v>> ELSE d[2][i]])
    ELSE Dict(Append(d[2], <<k, v>>))

Keys(d) == {d[2][i][1] : i \in 1..Len(d[2])}

(***************************************************************************)
(* json.dump / json.load                                                   *)
(***************************************************************************)
P(c) == <<"p", c>>
S(s) == <<"s", s>>

RECURSIVE JsonDump(_)
RECURSIVE DumpElems(_, _)
RECURSIVE DumpMembers(_, _)

DumpElems(xs, i) ==
    IF i > Len(xs) THEN <<>>
    ELSE (IF i > 1 THEN <<P(",")>> ELSE <<>>) \o JsonDump(xs[i]) \o DumpElems(xs, i + 1)

DumpMembers(ps, i) ==
    IF i > Len(ps) THEN <<>>
    ELSE (IF i > 1 THEN <<P(",")>> ELSE <<>>)
         \o <<S(ps[i][1]), P(":")>> \o JsonDump(ps[i][2]) \o DumpMembers(ps, i + 1)

JsonDump(v) ==
    IF v[1] = "str" THEN <<S(v[2])>>
    ELSE IF v[1] = "list" THEN <<P("[")>> \o DumpElems(v[2], 1) \o <<P("]")>>
    ELSE <<P("{")>> \o DumpMembers(v[2], 1) \o <<P("}")>>

\* A parse step returns [ok, val, next]; ok = FALSE is JSONDecodeError.
Bad == [ok |-> FALSE, val |-> Str(""), next |-> 0]

RECURSIVE ParseValue(_, _)
RECURSIVE ParseElems(_, _, _)
RECURSIVE ParseMembers(_, _, _)

ParseElems(t, i, acc) ==
    IF i > Len(t) THEN Bad
    ELSE IF t[i] = P("]")
         THEN (IF acc = <<>> THEN [ok |-> TRUE, val |-> List(acc), next |-> i + 1] ELSE Bad)
    ELSE LET r == ParseValue(t, i) IN
         IF ~r.ok \/ r.next > Len(t) THEN Bad
         ELSE IF t[r.next] = P("]")
              THEN [ok |-> TRUE, val |-> List(Append(acc, r.val)), next |-> r.next + 1]
         ELSE IF t[r.next] = P(",") THEN ParseElems(t, r.next + 1, Append(acc, r.val))
         ELSE Bad

ParseMembers(t, i, acc) ==
    IF i > Len(t) THEN Bad
    ELSE IF t[i] = P("}")
         THEN (IF acc[2] = <<>> THEN [ok |-> TRUE, val |-> acc, next |-> i + 1] ELSE Bad)
    ELSE IF t[i][1] # "s" \/ i + 2 > Len(t) \/ t[i + 1] # P(":") THEN Bad
    ELSE LET r == ParseValue(t, i + 2)
             d == SetItem(acc, t[i][2], r.val)
         IN  IF ~r.ok \/ r.next > Len(t) THEN Bad
             ELSE IF t[r.next] = P("}")
                  THEN [ok |-> TRUE, val |-> d, next |-> r.next + 1]
             ELSE IF t[r.next] = P(",") THEN ParseMembers(t, r.next + 1, d)
             ELSE Bad

ParseValue(t, i) ==
    IF i > Len(t) THEN Bad
    ELSE IF t[i][1] = "s" THEN [ok |-> TRUE, val |-> Str(t[i][2]), next |-> i + 1]
    ELSE IF t[i] = P("[") THEN ParseElems(t, i + 1, <<>>)
    ELSE IF t[i] = P("{") THEN ParseMembers(t, i + 1, Dict(<<>>))
    ELSE Bad

\* json.load / json.loads: the whole text must be one value
JsonLoad(t) ==
    LET r == ParseValue(t, 1) IN
    IF r.ok /\ r.next = Len(t) + 1 THEN r ELSE Bad

(***************************************************************************)
(* Inputs: the --mcp-config documents and --server values                  *)
(***************************************************************************)
ServerNames == {"weather", "trello"}

Bodies ==
    { Dict(<< <<"command", Str("wx-server")>>,
              <<"args", List(<<Str("--mode"), Str("json")>>)>> >>),
      Dict(<< <<"name", Str("other")>>,
              <<"type", Str("stdio")>>,
              <<"command", Str("npx")>>,
              <<"args", List(<<Str("-y")>>)>>,
              <<"env", Dict(<< <<"API_KEY", Str("k")>> >>)>> >>),
      Dict(<< <<"type", Str("http")>>, <<"url", Str("https://h/mcp")>> >>),
      Dict(<< <<"url", Str("https://h/mcp")>>, <<"command", Str("srv")>> >>),
      Dict(<< <<"url", Str("https://h/mcp")>> >>) }

\* the name -> body maps of the mcpServers shape, keys distinct, in file order
RECURSIVE ServerMaps(_)
ServerMaps(n) ==
    IF n = 0 THEN {<<>>}
    ELSE LET prev == ServerMaps(n - 1) IN
         prev \cup { Append(m, <<k, b>>) :
                       m \in {x \in prev : Len(x) = n - 1},
                       k \in ServerNames, b \in Bodies }

DistinctKeys(m) == \A i, j \in 1..Len(m) : m[i][1] = m[j][1] => i = j

MultiConfigs ==
    { Dict(<< <<"mcpServers", Dict(m)>> >>) :
        m \in {x \in ServerMaps(MaxServers) : DistinctKeys(x)} }

SingleConfigs ==
    Bodies \cup { Dict(<< <<"name", Str(k)>> >> \o b[2]) :
                    k \in ServerNames, b \in {x \in Bodies : ~In(x, "name")} }

InvalidConfigs == { Dict(<<>>), Dict(<< <<"name", Str("weather")>> >>) }

ConfigFiles == MultiConfigs \cup SingleConfigs \cup InvalidConfigs

ServerFilters == {None, Some(""), Some("weather")}

(***************************************************************************)
(* mcp_to_skill.py                                                         *)
(***************************************************************************)
PerToolTokens == 500
IdleTokens == 100
ActiveTokens == 5000
ExecutingTokens == 0

\* int(x) of the rational a / b, b > 0: truncation toward zero.  (For every
\* tool count up to 2000 the float expression of the source truncates to the
\* same integer as the exact quotient.)
Trunc(a, b) == IF a >= 0 THEN a \div b ELSE -((-a) \div b)

\* variant: an entry that carries its own "name" keeps it (setdefault)
RECURSIVE CollectServersKeepName(_, _, _, _)
CollectServersKeepName(items, i, filter, acc) ==
    IF i > Len(items) THEN acc
    ELSE IF Truthy(filter) /\ items[i][1] # filter[1]
         THEN CollectServersKeepName(items, i + 1, filter, acc)
    ELSE CollectServersKeepName(items, i + 1, filter,
             Append(acc, IF In(items[i][2], "name") THEN items[i][2]
                         ELSE SetItem(items[i][2], "name", Str(items[i][1]))))

RECURSIVE CollectServers(_, _, _, _)
CollectServers(items, i, filter, acc) ==
    IF i > Len(items) THEN acc
    ELSE IF Truthy(filter) /\ items[i][1] # filter[1]
         THEN CollectServers(items, i + 1, filter, acc)
    ELSE CollectServers(items, i + 1, filter,
                        Append(acc, SetItem(items[i][2], "name", Str(items[i][1]))))

\* [ok, servers]; ok = FALSE is the ValueError of an unrecognised shape
parse_mcp_config(d, filter) ==
    IF In(d, "mcpServers")
    THEN [ok |-> TRUE,
          servers |-> CollectServers(Get(d, "mcpServers")[2], 1, filter, <<>>)]
    ELSE IF In(d, "command") \/ In(d, "url")
         THEN [ok |-> TRUE, servers |-> <<d>>]
    ELSE [ok |-> FALSE, servers |-> <<>>]

get_server_name(mcp_config) == GetOr(mcp_config, "name", Str("unnamed-mcp-server"))[2]

\* variant: the transport is inferred from the presence of a url
get_transport_type_by_url(mcp_config) ==
    IF In(mcp_config, "url")
    THEN [kind |-> "HTTP", url |-> Get(mcp_config, "url")[2]]
    ELSE [kind |-> "stdio", url |-> ""]

get_transport_type(mcp_config) ==
    IF GetOr(mcp_config, "type", Str("")) = Str("http")
    THEN [kind |-> "HTTP", url |-> GetOr(mcp_config, "url", Str("unknown"))[2]]
    ELSE [kind |-> "stdio", url |-> ""]

get_mcp_tools ==
    << Dict(<< <<"name", Str("example_tool")>>,
               <<"description", Str("An example tool from the MCP server")>>,
               <<"inputSchema", Dict(<< <<"type", Str("object")>> >>)>> >>) >>

savings_percent(tool_count) ==
    Trunc(100 * (tool_count * PerToolTokens - ActiveTokens), tool_count * PerToolTokens)

\* [ok, md]; ok = FALSE is the ZeroDivisionError of an empty catalog
generate_skill_md(mcp_config, ts) ==
    LET tool_count == Len(ts) IN
    IF tool_count * PerToolTokens = 0
    THEN [ok |-> FALSE, md |-> <<>>]
    ELSE [ok |-> TRUE,
          md |-> [name |-> get_server_name(mcp_config),
                  tool_count |-> tool_count,
                  transport |-> get_transport_type(mcp_config),
                  tool_list |-> [i \in 1..tool_count |->
                                   <<Get(ts[i], "name")[2],
                                     GetOr(ts[i], "description", Str("No description"))[2]>>],
                  baseline_tokens |-> tool_count * PerToolTokens,
                  idle_tokens |-> IdleTokens,
                  active_tokens |-> ActiveTokens,
                  executing_tokens |-> ExecutingTokens,
                  savings_percent |-> savings_percent(tool_count)]]

\* variant: the persisted config always carries the server name used
generate_config_named(mcp_config) ==
    JsonDump(SetItem(mcp_config, "name",
                     GetOr(mcp_config, "name", Str("unnamed-mcp-server"))))

generate_config(mcp_config) == JsonDump(mcp_config)

WriteFile(fs, dir, content) ==
    [d \in DOMAIN fs \cup {dir} |-> IF d = dir THEN content ELSE fs[d]]

NoFiles == [d \in {} |-> 0]

\* convert_mcp_to_skill up to the server loop
GenParse ==
    /\ gpc = "parse"
    /\ LET r == parse_mcp_config(data, server_name) IN
       IF ~r.ok
       THEN /\ gpc' = "error"
            /\ UNCHANGED <<servers, gi>>
       ELSE /\ servers' = r.servers
            /\ gi' = 1
            /\ gpc' = IF r.servers = <<>> THEN "done" ELSE "generate"
    /\ UNCHANGED <<data, server_name, tools, files, md_out>>
    /\ UNCHANGED evars

\* one iteration of the server loop: MCPSkillGenerator(config, dir).generate()
GenGenerate ==
    /\ gpc = "generate"
    /\ gi <= Len(servers)
    /\ LET mcp_config == servers[gi]
           md == generate_skill_md(mcp_config, get_mcp_tools)
       IN  /\ tools' = get_mcp_tools
           /\ IF ~md.ok
              THEN /\ gpc' = "error"
                   /\ UNCHANGED <<files, gi>>
              ELSE /\ files' = WriteFile(files, get_server_name(mcp_config),
                                         [skill_md |-> md.md,
                                          config_json |-> generate_config(mcp_config)])
                   /\ gi' = gi + 1
                   /\ gpc' = IF gi + 1 > Len(servers) THEN "done" ELSE "generate"
    /\ UNCHANGED <<data, server_name, servers, md_out>>
    /\ UNCHANGED evars

(***************************************************************************)
(* Inputs of the executor: command lines, and what the remote answers      *)
(***************************************************************************)
ToolNames == {"lookup", "get_card"}

CallTexts ==
    { <<>>,                                                    \* --call ''
      <<P("{")>>,                                              \* not JSON
      JsonDump(Dict(<< <<"arguments", Dict(<<>>)>> >>)),       \* no "tool" key
      JsonDump(List(<<Str("lookup")>>)) }                      \* not an object
    \cup { JsonDump(Dict(<< <<"tool", Str(n)>>,
                            <<"arguments", Dict(<< <<"city", Str("Paris")>> >>)>> >>)) :
             n \in {"lookup"} }

ArgSets ==
    [ list : BOOLEAN,
      describe : {None, Some("")} \cup {Some(n) : n \in ToolNames},
      call : {None} \cup {Some(t) : t \in CallTexts} ]

Descriptors ==
    { [name |-> "get_card", description |-> "Get a card", inputSchema |-> "schema-card"],
      [name |-> "lookup", description |-> "", inputSchema |-> "schema-lookup-v2"],
      [name |-> "lookup", description |-> "Weather lookup", inputSchema |-> "schema-lookup"] }

RECURSIVE CatalogsUpTo(_)
CatalogsUpTo(n) ==
    IF n = 0 THEN {<<>>}
    ELSE LET prev == CatalogsUpTo(n - 1) IN
         prev \cup { Append(c, d) : c \in {x \in prev : Len(x) = n - 1}, d \in Descriptors }

Catalogs == CatalogsUpTo(MaxCatalog)

CatalogNames(c) == {c[i].name : i \in 1..Len(c)}

TextItem(mentions) == [text |-> Some("text"), mentions |-> mentions]
OpaqueItem == [text |-> None, mentions |-> {}]

(***************************************************************************)
(* executor.py                                                             *)
(***************************************************************************)
Msg(kind, mentions) == [kind |-> kind, mentions |-> mentions]

TruthyText(o) == o # None /\ o[1] # <<>>

\* mcp_connection: the branch taken on config.get("type", "stdio")
transport_variant(cfg) ==
    IF GetOr(cfg, "type", Str("stdio")) = Str("http") THEN "http" ELSE "stdio"

\* config["url"] / config["command"] of the branch taken does not raise KeyError
HasRequiredKey(cfg, v) == IF v = "http" THEN In(cfg, "url") ELSE In(cfg, "command")

\* leaving an `async with` block, normally or by an exception
\* variant: the channel is not released on the way out
ReleaseChannelLeak(ch) == ch

ReleaseChannel(ch) == IF ch = "open" THEN "closed" ELSE ch
ReleaseClient(cl) == IF cl = "entered" THEN "exited" ELSE cl

list_tools(c) ==
    [i \in 1..Len(c) |-> [name |-> c[i].name, description |-> c[i].description]]

\* variant: the last entry of that name is returned, not the first
describe_tool_last(c, tool_name) ==
    IF \E i \in 1..Len(c) : c[i].name = tool_name
    THEN LET k == CHOOSE i \in 1..Len(c) :
                    /\ c[i].name = tool_name
                    /\ \A j \in (i + 1)..Len(c) : c[j].name # tool_name
         IN  Some([name |-> c[k].name, description |-> c[k].description,
                   inputSchema |-> c[k].inputSchema])
    ELSE None

describe_tool(c, tool_name) ==
    IF \E i \in 1..Len(c) : c[i].name = tool_name
    THEN LET k == CHOOSE i \in 1..Len(c) :
                    /\ c[i].name = tool_name
                    /\ \A j \in 1..(i - 1) : c[j].name # tool_name
         IN  Some([name |-> c[k].name, description |-> c[k].description,
                   inputSchema |-> c[k].inputSchema])
    ELSE None

\* the if / elif chain of main
SelectOp(a) ==
    IF a.list THEN "list"
    ELSE IF Truthy(a.describe) THEN "describe"
    ELSE IF TruthyText(a.call) THEN "call"
    ELSE "help"

\* call_data = json.loads(args.call); call_data["tool"]
CallData(a) ==
    LET r == JsonLoad(a.call[1]) IN
    IF ~r.ok THEN [ok |-> FALSE, exc |-> "JSONDecodeError", tool |-> ""]
    ELSE IF r.val[1] # "dict" THEN [ok |-> FALSE, exc |-> "TypeError", tool |-> ""]
    ELSE IF ~In(r.val, "tool") THEN [ok |-> FALSE, exc |-> "KeyError", tool |-> ""]
    ELSE [ok |-> TRUE, exc |-> "", tool |-> Get(r.val, "tool")[2]]

\* the process ends: every `async with` entered is left, then sys.exit / return
Finish(code, out, err) ==
    /\ client' = ReleaseClient(client)
    /\ channel' = ReleaseChannel(channel)
    /\ session_hist' = IF variant = "none" THEN session_hist
                       ELSE Append(session_hist, "Closed")
    /\ exit_code' = code
    /\ stdout' = stdout \o out
    /\ stderr' = stderr \o err
    /\ epc' = "exited"

\* except Exception as e: print(f"Error: {e}"); sys.exit(1)
Except(mentions) == Finish(1, <<>>, <<Msg("error", mentions)>>)

\* module import and parser.parse_args()
ExecStart ==
    /\ epc = "idle"
    /\ gpc \in {"done", "error"}
    /\ \E dir \in DOMAIN files \cup {"elsewhere"}, a \in ArgSets, h \in BOOLEAN :
         /\ skill_dir' = dir
         /\ args' = a
         /\ HAS_MCP' = h
         /\ stderr' = IF h THEN <<>> ELSE <<Msg("warning_mcp_missing", {})>>
    /\ epc' = "check_config"
    /\ UNCHANGED <<config, variant, selections, channel, client, session_hist,
                   sent, ops, op, catalog, reply, result, exit_code, stdout>>
    /\ UNCHANGED gvars

CheckConfig ==
    /\ epc = "check_config"
    /\ IF skill_dir \notin DOMAIN files
       THEN /\ exit_code' = 1
            /\ stderr' = Append(stderr, Msg("config_not_found", {}))
            /\ epc' = "exited"
            /\ UNCHANGED config
       ELSE /\ config' = JsonLoad(files[skill_dir].config_json).val
            /\ epc' = "check_mcp"
            /\ UNCHANGED <<exit_code, stderr>>
    /\ UNCHANGED <<skill_dir, args, HAS_MCP, variant, selections, channel, client,
                   session_hist, sent, ops, op, catalog, reply, result, stdout>>
    /\ UNCHANGED gvars

\* variant: the message is printed but the process does not exit
CheckMcpNoExit ==
    /\ epc = "check_mcp"
    /\ stderr' = IF HAS_MCP THEN stderr ELSE Append(stderr, Msg("mcp_not_installed", {}))
    /\ epc' = "connect"
    /\ UNCHANGED <<skill_dir, args, HAS_MCP, config, variant, selections, channel,
                   client, session_hist, sent, ops, op, catalog, reply, result,
                   exit_code, stdout>>
    /\ UNCHANGED gvars

CheckMcp ==
    /\ epc = "check_mcp"
    /\ IF ~HAS_MCP
       THEN /\ exit_code' = 1
            /\ stderr' = Append(stderr, Msg("mcp_not_installed", {}))
            /\ epc' = "exited"
       ELSE /\ epc' = "connect"
            /\ UNCHANGED <<exit_code, stderr>>
    /\ UNCHANGED <<skill_dir, args, HAS_MCP, config, variant, selections, channel,
                   client, session_hist, sent, ops, op, catalog, reply, result, stdout>>
    /\ UNCHANGED gvars

\* async with mcp_connection(config): up to the transport's `async with`
Connect ==
    /\ epc = "connect"
    /\ LET v == transport_variant(config) IN
       /\ variant' = v
       /\ selections' = selections + 1
       /\ IF ~HasRequiredKey(config, v)
          THEN /\ session_hist' = Append(session_hist, "Closed")
               /\ exit_code' = 1
               /\ stderr' = Append(stderr, Msg("error", {}))
               /\ epc' = "exited"
          ELSE /\ epc' = "open"
               /\ UNCHANGED <<session_hist, exit_code, stderr>>
    /\ UNCHANGED <<client, channel>>
    /\ UNCHANGED <<skill_dir, args, HAS_MCP, config, sent, ops, op, catalog, reply,
                   result, stdout>>
    /\ UNCHANGED gvars

\* stdio_client(...) / streamablehttp_client(url) entered
OpenOk ==
    /\ epc = "open"
    /\ channel' = "open"
    /\ sent' = [sent EXCEPT !.open = @ + 1]
    /\ session_hist' = Append(session_hist, "Handshaking")
    /\ epc' = "enter_session"
    /\ UNCHANGED <<skill_dir, args, HAS_MCP, config, variant, selections, client, ops,
                   op, catalog, reply, result, exit_code, stdout, stderr>>
    /\ UNCHANGED gvars

\* spawning or connecting raised
OpenFail ==
    /\ epc = "open"
    /\ sent' = [sent EXCEPT !.open = @ + 1]
    /\ Except({})
    /\ UNCHANGED <<skill_dir, args, HAS_MCP, config, variant, selections, ops, op,
                   catalog, reply, result>>
    /\ UNCHANGED gvars

\* ClientSession(read, write) entered
EnterOk ==
    /\ epc = "enter_session"
    /\ client' = "entered"
    /\ epc' = "initialize"
    /\ UNCHANGED <<skill_dir, args, HAS_MCP, config, variant, selections, channel,
                   session_hist, sent, ops, op, catalog, reply, result, exit_code,
                   stdout, stderr>>
    /\ UNCHANGED gvars

EnterFail ==
    /\ epc = "enter_session"
    /\ Except({})
    /\ UNCHANGED <<skill_dir, args, HAS_MCP, config, variant, selections, sent, ops,
                   op, catalog, reply, result>>
    /\ UNCHANGED gvars

\* await session.initialize() answered
InitializeOk ==
    /\ epc = "initialize"
    /\ sent' = [sent EXCEPT !.initialize = @ + 1]
    /\ session_hist' = Append(session_hist, "Ready")
    /\ epc' = "dispatch"
    /\ UNCHANGED <<skill_dir, args, HAS_MCP, config, variant, selections, channel,
                   client, ops, op, catalog, reply, result, exit_code, stdout, stderr>>
    /\ UNCHANGED gvars

\* variant: the handshake failure is swallowed and the operation goes ahead
InitializeFailIgnored ==
    /\ epc = "initialize"
    /\ sent' = [sent EXCEPT !.initialize = @ + 1]
    /\ epc' = "dispatch"
    /\ UNCHANGED <<skill_dir, args, HAS_MCP, config, variant, selections, channel,
                   client, session_hist, ops, op, catalog, reply, result, exit_code,
                   stdout, stderr>>
    /\ UNCHANGED gvars

InitializeFail ==
    /\ epc = "initialize"
    /\ sent' = [sent EXCEPT !.initialize = @ + 1]
    /\ Except({})
    /\ UNCHANGED <<skill_dir, args, HAS_MCP, config, variant, selections, ops, op,
                   catalog, reply, result>>
    /\ UNCHANGED gvars

Contents(tool) ==
    { <<TextItem(m)>> : m \in {{}, {tool}} }
    \cup { <<TextItem({}), OpaqueItem>> }

\* if args.list: tools = await list_tools(session)
DispatchList ==
    /\ epc = "dispatch"
    /\ SelectOp(args) = "list"
    /\ op' = "list"
    /\ ops' = ops + 1
    /\ sent' = [sent EXCEPT !.list_tools = @ + 1]
    /\ epc' = "await_list"
    /\ UNCHANGED <<skill_dir, args, HAS_MCP, config, variant, selections, channel,
                   client, session_hist, catalog, reply, result, exit_code, stdout,
                   stderr>>
    /\ UNCHANGED gvars

\* elif args.describe: schema = await describe_tool(session, args.describe)
DispatchDescribe ==
    /\ epc = "dispatch"
    /\ SelectOp(args) = "describe"
    /\ op' = "describe"
    /\ ops' = ops + 1
    /\ sent' = [sent EXCEPT !.list_tools = @ + 1]
    /\ epc' = "await_list"
    /\ UNCHANGED <<skill_dir, args, HAS_MCP, config, variant, selections, channel,
                   client, session_hist, catalog, reply, result, exit_code, stdout,
                   stderr>>
    /\ UNCHANGED gvars

\* elif args.call: json.loads, then await call_tool(session, tool, arguments)
DispatchCall ==
    /\ epc = "dispatch"
    /\ SelectOp(args) = "call"
    /\ op' = "call"
    /\ IF CallData(args).ok
       THEN /\ ops' = ops + 1
            /\ sent' = [sent EXCEPT !.call_tool = @ + 1]
            /\ epc' = "await_call"
            /\ UNCHANGED <<channel, client, session_hist, exit_code, stdout, stderr>>
       ELSE /\ Except({})
            /\ UNCHANGED <<ops, sent>>
    /\ UNCHANGED <<skill_dir, args, HAS_MCP, config, variant, selections, catalog,
                   reply, result>>
    /\ UNCHANGED gvars

\* else: parser.print_help()
DispatchHelp ==
    /\ epc = "dispatch"
    /\ SelectOp(args) = "help"
    /\ op' = "help"
    /\ Finish(0, <<[kind |-> "help"]>>, <<>>)
    /\ UNCHANGED <<skill_dir, args, HAS_MCP, config, variant, selections, sent, ops,
                   catalog, reply, result>>
    /\ UNCHANGED gvars

\* variant: a failed listing is attempted again
ListFailRetry ==
    /\ epc = "await_list"
    /\ epc' = "dispatch"
    /\ UNCHANGED <<skill_dir, args, HAS_MCP, config, variant, selections, channel,
                   client, session_hist, sent, ops, op, catalog, reply, result,
                   exit_code, stdout, stderr>>
    /\ UNCHANGED gvars

\* session.list_tools() raised, in list_tools or in describe_tool
ListFail ==
    /\ epc = "await_list"
    /\ Except({})
    /\ UNCHANGED <<skill_dir, args, HAS_MCP, config, variant, selections, sent, ops,
                   op, catalog, reply, result>>
    /\ UNCHANGED gvars

\* list_tools returned: print(json.dumps(tools))
ListDone ==
    /\ epc = "await_list"
    /\ op = "list"
    /\ \E c \in Catalogs :
         /\ catalog' = c
         /\ reply' = "catalog"
         /\ result' = Some(list_tools(c))
         /\ Finish(0, <<[kind |-> "json", value |-> list_tools(c)]>>, <<>>)
    /\ UNCHANGED <<skill_dir, args, HAS_MCP, config, variant, selections, sent, ops, op>>
    /\ UNCHANGED gvars

\* describe_tool returned: print the schema, or "Tool not found" and sys.exit(1)
DescribeDone ==
    /\ epc = "await_list"
    /\ op = "describe"
    /\ \E c \in Catalogs :
         LET schema == describe_tool(c, args.describe[1]) IN
         /\ catalog' = c
         /\ reply' = "catalog"
         /\ result' = schema
         /\ IF schema # None
            THEN Finish(0, <<[kind |-> "json", value |-> schema[1]]>>, <<>>)
            ELSE Finish(1, <<>>, <<Msg("tool_not_found", {args.describe[1]})>>)
    /\ UNCHANGED <<skill_dir, args, HAS_MCP, config, variant, selections, sent, ops, op>>
    /\ UNCHANGED gvars

\* session.call_tool raised; the message is the remote's or the transport's
CallRaised ==
    /\ epc = "await_call"
    /\ \E c \in Catalogs, m \in {{}, {CallData(args).tool}} :
         /\ catalog' = c
         /\ reply' = "raised"
         /\ Except(m)
    /\ UNCHANGED <<skill_dir, args, HAS_MCP, config, variant, selections, sent, ops,
                   op, result>>
    /\ UNCHANGED gvars

\* items of the content printed before one fails to serialise (all, if none does)
RECURSIVE Printed(_, _, _)
Printed(content, i, serialisable) ==
    IF i > Len(content) THEN <<>>
    ELSE IF content[i].text = None /\ ~serialisable THEN <<>>
    ELSE <<[kind |-> "text", value |-> content[i]]>> \o Printed(content, i + 1, serialisable)

\* session.call_tool returned a result; is_error is the result's isError flag,
\* which a remote sets when it does not know the tool
CallReturned ==
    /\ epc = "await_call"
    /\ \E c \in Catalogs, is_error \in BOOLEAN, serialisable \in BOOLEAN :
       \E content \in Contents(CallData(args).tool) :
         /\ CallData(args).tool \notin CatalogNames(c) => is_error
         /\ (\A i \in 1..Len(content) : content[i].text # None) => serialisable
         /\ catalog' = c
         /\ reply' = IF is_error THEN "error_result" ELSE "ok_result"
         /\ result' = Some(content)
         /\ IF Len(Printed(content, 1, serialisable)) = Len(content)
            THEN Finish(0, Printed(content, 1, serialisable), <<>>)
            ELSE Finish(1, Printed(content, 1, serialisable), <<Msg("error", {})>>)
    /\ UNCHANGED <<skill_dir, args, HAS_MCP, config, variant, selections, sent, ops, op>>
    /\ UNCHANGED gvars

(***************************************************************************)
(* The converter followed by one executor invocation                       *)
(***************************************************************************)
NoArgs == [list |-> FALSE, describe |-> None, call |-> None]

ExecInit ==
    /\ epc = "idle"
    /\ skill_dir = ""
    /\ args = NoArgs
    /\ HAS_MCP = TRUE
    /\ config = Dict(<<>>)
    /\ variant = "none"
    /\ selections = 0
    /\ channel = "none"
    /\ client = "none"
    /\ session_hist = <<"Unconnected">>
    /\ sent = [open |-> 0, initialize |-> 0, list_tools |-> 0, call_tool |-> 0]
    /\ ops = 0
    /\ op = "none"
    /\ catalog = <<>>
    /\ reply = "none"
    /\ result = None
    /\ exit_code = -1
    /\ stdout = <<>>
    /\ stderr = <<>>

Init ==
    /\ data \in ConfigFiles
    /\ server_name \in ServerFilters
    /\ gpc = "parse"
    /\ servers = <<>>
    /\ gi = 0
    /\ tools = <<>>
    /\ files = NoFiles
    /\ md_out = None
    /\ ExecInit

Next ==
    \/ GenParse
    \/ GenGenerate
    \/ ExecStart
    \/ CheckConfig
    \/ CheckMcp
    \/ Connect
    \/ OpenOk
    \/ OpenFail
    \/ EnterOk
    \/ EnterFail
    \/ InitializeOk
    \/ InitializeFail
    \/ DispatchList
    \/ DispatchDescribe
    \/ DispatchCall
    \/ DispatchHelp
    \/ ListFail
    \/ ListDone
    \/ DescribeDone
    \/ CallRaised
    \/ CallReturned

Spec == Init /\ [][Next]_vars

(***************************************************************************)
(* _generate_skill_md applied to catalogs of every size                    *)
(***************************************************************************)
ToolPool ==
    << Dict(<< <<"name", Str("example_tool")>>,
               <<"description", Str("An example tool from the MCP server")>> >>),
       Dict(<< <<"name", Str("bare_tool")>> >>) >>

ToolsOfSize(n) == [i \in 1..n |-> ToolPool[((i - 1) % Len(ToolPool)) + 1]]

InitSkillMd ==
    /\ data \in SingleConfigs
    /\ server_name = None
    /\ gpc = "skill_md"
    /\ servers = <<data>>
    /\ gi = 1
    /\ tools \in {ToolsOfSize(n) : n \in 0..MaxToolCount}
    /\ files = NoFiles
    /\ md_out = None
    /\ ExecInit

\* MCPSkillGenerator(data, dir)._generate_skill_md(tools)
SkillMd ==
    /\ gpc = "skill_md"
    /\ LET md == generate_skill_md(servers[gi], tools) IN
       IF md.ok
       THEN /\ md_out' = Some(md.md)
            /\ gpc' = "skill_md_done"
       ELSE /\ md_out' = None
            /\ gpc' = "error"
    /\ UNCHANGED <<data, server_name, servers, gi, tools, files>>
    /\ UNCHANGED evars

SpecSkillMd == InitSkillMd /\ [][SkillMd]_vars

(***************************************************************************)
(* Properties                                                              *)
(***************************************************************************)
Last(q) == q[Len(q)]
WasReady == \E i \in 1..Len(session_hist) : session_hist[i] = "Ready"
Requests == sent.list_tools + sent.call_tool
ConfigPresent == skill_dir \in DOMAIN files
StderrMentions(name) == \E i \in 1..Len(stderr) : name \in stderr[i].mentions
StderrHas(kind) == \E i \in 1..Len(stderr) : stderr[i].kind = kind

\* C1: once the process has exited, no channel that was opened is still open
\* (and no client session entered is still entered), whatever the exit path.
C1_ChannelReleased ==
    epc = "exited" => (channel # "open" /\ client # "entered")

\* C1 witness: the describe-not-found exit (sys.exit(1) inside the session)
\* after the channel was opened, with the channel closed.
C1_Witness ==
    /\ epc = "exited"
    /\ op = "describe"
    /\ reply = "catalog"
    /\ result = None
    /\ exit_code = 1
    /\ channel = "closed"
    /\ client = "exited"

\* C2: the session passes Unconnected -> Handshaking -> Ready -> Closed; a
\* request is outstanding or was sent only after Ready was reached; a failure
\* while Unconnected or Handshaking goes straight to Closed with exit code 1,
\* an error on standard error, and no list/describe/call request sent.
C2_SessionStateMachine ==
    /\ session_hist \in { <<"Unconnected">>,
                          <<"Unconnected", "Handshaking">>,
                          <<"Unconnected", "Handshaking", "Ready">>,
                          <<"Unconnected", "Handshaking", "Ready", "Closed">>,
                          <<"Unconnected", "Closed">>,
                          <<"Unconnected", "Handshaking", "Closed">> }
    /\ epc \in {"await_list", "await_call"} => Last(session_hist) = "Ready"
    /\ (Requests > 0 \/ ops > 0) => WasReady
    /\ session_hist \in { <<"Unconnected", "Closed">>,
                          <<"Unconnected", "Handshaking", "Closed">> }
         => /\ epc = "exited"
            /\ exit_code = 1
            /\ StderrHas("error")
            /\ Requests = 0
            /\ ops = 0

\* C2 witness: the initialize handshake failed.
C2_Witness ==
    /\ session_hist = <<"Unconnected", "Handshaking", "Closed">>
    /\ sent.initialize = 1
    /\ epc = "exited"

\* C3 (as claimed): an invocation past the config and capability checks ends
\* having opened exactly one session, shaken hands exactly once and performed
\* exactly one of list / describe / call.
C3_ExactlyOne ==
    (epc = "exited" /\ selections > 0)
        => (sent.open = 1 /\ sent.initialize = 1 /\ ops = 1)

OperationSupplied ==
    \/ args.list
    \/ Truthy(args.describe)
    \/ (TruthyText(args.call) /\ CallData(args).ok)

\* C3 (amended): at most one session is opened, at most one handshake is made
\* and at most one of list / describe / call is performed, with exactly one
\* request for it, list taking precedence over describe and describe over
\* call; exactly one of each when the session became Ready and an operation
\* was supplied (a --call payload being a JSON object with a "tool" key).
C3_AtMostOnce ==
    /\ sent.open <= 1
    /\ sent.initialize <= 1
    /\ Requests <= 1
    /\ ops <= 1
    /\ Requests = ops
    /\ ops = 1 => op = (IF args.list THEN "list"
                        ELSE IF args.describe # None /\ args.describe # Some("")
                             THEN "describe" ELSE "call")
    /\ (epc = "exited" /\ WasReady /\ OperationSupplied)
         => (sent.open = 1 /\ sent.initialize = 1 /\ ops = 1)

\* C3 witness: --list, --describe and --call all supplied, one operation done.
C3_Witness ==
    /\ epc = "exited"
    /\ args.list
    /\ Truthy(args.describe)
    /\ TruthyText(args.call)
    /\ ops = 1
    /\ Requests = 1
    /\ exit_code = 0

\* C4: a --call whose tool is not in the remote's catalog never ends with
\* exit code 0, whether the remote raised or returned an error-flagged result
\* (the claim's weakest clause: it also asks for exit code 1 and a
\* standard-error message naming the tool).
C4_UnknownCallIsError ==
    (/\ epc = "exited"
     /\ op = "call"
     /\ sent.call_tool = 1
     /\ reply \in {"raised", "error_result"}
     /\ CallData(args).tool \notin CatalogNames(catalog))
        => exit_code # 0

\* C5: when the catalog came back for a describe, the value returned is the
\* full descriptor of the first catalog entry of that name and the exit code
\* is 0; with no such entry the value is None, nothing was raised (the
\* message is "Tool not found", not "Error"), and the exit code is 1.
C5_Describe ==
    (epc = "exited" /\ op = "describe" /\ reply = "catalog")
        => LET name == args.describe[1]
               hits == {i \in 1..Len(catalog) : catalog[i].name = name}
           IN  IF hits # {}
               THEN /\ \E i \in hits :
                         /\ \A j \in hits : i <= j
                         /\ result = Some([name |-> name,
                                           description |-> catalog[i].description,
                                           inputSchema |-> catalog[i].inputSchema])
                    /\ exit_code = 0
                    /\ stderr = <<>>
               ELSE /\ result = None
                    /\ exit_code = 1
                    /\ stderr = <<Msg("tool_not_found", {name})>>
                    /\ stdout = <<>>

\* C5 witness: describe of a name the non-empty catalog does not hold.
C5_Witness ==
    /\ epc = "exited"
    /\ op = "describe"
    /\ reply = "catalog"
    /\ Len(catalog) = MaxCatalog
    /\ args.describe[1] \notin CatalogNames(catalog)
    /\ result = None

\* round(a / b), b > 0, halves to the even neighbour
RoundDiv(a, b) ==
    LET q == a \div b
        r == a - q * b
    IN  IF 2 * r < b THEN q
        ELSE IF 2 * r > b THEN q + 1
        ELSE IF q % 2 = 0 THEN q ELSE q + 1

\* C6: the document reports baseline_tokens = tool_count * 500 and
\* savings_percent = round((1 - 5000 / baseline_tokens) * 100), unclamped.
C6_SavingsRounded ==
    md_out # None
        => LET n == Len(tools) IN
           /\ md_out[1].baseline_tokens = n * 500
           /\ md_out[1].savings_percent = RoundDiv(100 * (n * 500 - 5000), n * 500)

\* C7: for an mcpServers config the parser returns exactly the entries whose
\* key passes the filter (all of them when the filter is None or empty), in
\* the map's order, each with name = its key and its other fields unchanged.
C7_ParseMulti ==
    (gpc \in {"generate", "done"} /\ In(data, "mcpServers"))
        => LET items == Get(data, "mcpServers")[2]
               keep == {i \in 1..Len(items) :
                          server_name = None \/ server_name = Some("")
                          \/ items[i][1] = server_name[1]}
           IN  /\ Len(servers) = Cardinality(keep)
               /\ \A k \in keep :
                    LET j == Cardinality({i \in keep : i < k}) + 1
                        body == items[k][2]
                    IN  /\ Get(servers[j], "name") = Str(items[k][1])
                        /\ Keys(servers[j]) = Keys(body) \cup {"name"}
                        /\ \A f \in Keys(body) \ {"name"} :
                             Get(servers[j], f) = Get(body, f)

\* C7 witness: a two-entry map filtered down to its second entry, which
\* carried a "name" of its own.
C7_Witness ==
    /\ gpc = "done"
    /\ In(data, "mcpServers")
    /\ Len(Get(data, "mcpServers")[2]) = 2
    /\ Get(data, "mcpServers")[2][2][1] = "weather"
    /\ In(Get(data, "mcpServers")[2][2][2], "name")
    /\ server_name = Some("weather")
    /\ Len(servers) = 1

SingleService == ~In(data, "mcpServers") /\ (In(data, "command") \/ In(data, "url"))

\* C8: for a single-service config the parser returns the one record unchanged,
\* the file the generator persists parses back to it, and the config the
\* executor loads from that file equals it in every field.
C8_RoundTrip ==
    SingleService
        => /\ gpc \in {"generate", "done"} => servers = <<data>>
           /\ gpc = "done"
                => /\ DOMAIN files = {get_server_name(data)}
                   /\ \A d \in DOMAIN files :
                        LET r == JsonLoad(files[d].config_json)
                        IN  r.ok /\ r.val = data
           /\ (epc \notin {"idle", "check_config"} /\ ConfigPresent) => config = data

\* C8 witness: the executor has loaded a single-service config with args and env.
C8_Witness ==
    /\ SingleService
    /\ epc = "connect"
    /\ In(config, "env")
    /\ In(config, "args")
    /\ config = data

\* C9: with the config file absent or the client library unavailable the
\* invocation ends with exit code 1 and an error on standard error, no variant
\* selected, no channel opened, nothing sent; a missing config is reported
\* even when the library is missing too (the config check comes first), and a
\* session is acquired only with both present.
C9_FailFast ==
    /\ (epc = "exited" /\ (~ConfigPresent \/ ~HAS_MCP))
         => /\ exit_code = 1
            /\ Last(stderr).kind =
                 (IF ~ConfigPresent THEN "config_not_found" ELSE "mcp_not_installed")
            /\ ~(ConfigPresent /\ StderrHas("config_not_found"))
            /\ ~(~ConfigPresent /\ StderrHas("mcp_not_installed"))
    /\ (selections > 0 \/ channel # "none" \/ client # "none"
        \/ sent.open + sent.initialize + Requests > 0)
         => (ConfigPresent /\ HAS_MCP)

\* C9 witness: config file absent and library missing at once.
C9_Witness ==
    /\ epc = "exited"
    /\ ~ConfigPresent
    /\ ~HAS_MCP
    /\ Last(stderr).kind = "config_not_found"

\* C10: the variant the executor selects is HTTP exactly when the transport
\* line of the generated document says HTTP, which is exactly when the config's
\* type is "http"; the selection is made once, and before any channel is opened.
C10_SameVariant ==
    /\ selections <= 1
    /\ (channel # "none" \/ sent.open > 0) => selections = 1
    /\ selections = 0 => variant = "none"
    /\ (selections > 0 /\ ConfigPresent)
         => /\ variant \in {"http", "stdio"}
            /\ variant = "http" <=> files[skill_dir].skill_md.transport.kind = "HTTP"
            /\ variant = "http" <=> (In(config, "type") /\ Get(config, "type") = Str("http"))

\* C10 witness: a config with a url but no type tag, opened as stdio.
C10_Witness ==
    /\ channel = "open"
    /\ variant = "stdio"
    /\ In(config, "url")
    /\ ~In(config, "type")
    /\ files[skill_dir].skill_md.transport.kind = "stdio"

====
